---- MODULE Spec2Model ----
(***************************************************************************)
(* State-machine model of the Dash CSV uploader                            *)
(* (csv-uploader_app/csv-uploader_app/databricks_csv_uploader.py).         *)
(*                                                                         *)
(* The state is the content of the dcc.Store components and of the UI      *)
(* inputs the callbacks read; every callback is one action.  A callback    *)
(* receives its State arguments as fresh objects parsed from the request   *)
(* and its return values are serialised again, so object sharing matters   *)
(* only inside one callback: there it is modelled explicitly (see          *)
(* ShallowCopyAfter).                                                      *)
(***************************************************************************)
EXTENDS Integers, Sequences, FiniteSets, TLC

(***************************************************************************)
(* Bounds of the model.                                                    *)
(***************************************************************************)
\* callbacks per behaviour of Spec
MaxOps == 4
\* callbacks per behaviour of SpecDeep
MaxDeepOps == 12
\* rows of the snapshots given to the header derivation, and calls on each
MaxDeriveRows == 2
MaxDerives == 2
\* callbacks run on a table longer than the preview
MaxLongOps == 3
\* callbacks per behaviour of SpecEvents
MaxEventOps == 5
\* callbacks per behaviour of SpecPublish
MaxPublishOps == 4
\* callbacks per behaviour of SpecSessions
MaxSessionOps == 5

(***************************************************************************)
(* Program constants.                                                      *)
(***************************************************************************)
UNDO_LIMIT == 10
PREVIEW_ROWS == 20

(***************************************************************************)
(* Python values.  A dict is a sequence of <<key, value>> pairs with       *)
(* distinct keys, in insertion order.  NaN stands for a missing cell       *)
(* (pandas NaN, JSON null).                                                *)
(***************************************************************************)
NaN == "<NaN>"

Range(s) == {s[i] : i \in 1..Len(s)}

DictKeys(d) == [i \in 1..Len(d) |-> d[i][1]]

KeySet(d) == {d[i][1] : i \in 1..Len(d)}

DictGet(d, k) == d[CHOOSE i \in 1..Len(d) : d[i][1] = k][2]

DictSet(d, k, v) ==
    IF k \in KeySet(d)
    THEN [i \in 1..Len(d) |-> IF d[i][1] = k THEN <<k, v>> ELSE d[i]]
    ELSE Append(d, <<k, v>>)

DictDel(d, k) == SelectSeq(d, LAMBDA p : p[1] # k)

(***************************************************************************)
(* pandas.  A DataFrame is its column labels (duplicates allowed) and its  *)
(* rows of values, by position.                                            *)
(***************************************************************************)
RECURSIVE UnionKeys(_, _)
UnionKeys(data, acc) ==
    IF data = <<>> THEN acc
    ELSE UnionKeys(Tail(data),
                   acc \o SelectSeq(DictKeys(Head(data)),
                                    LAMBDA k : k \notin Range(acc)))

\* pd.DataFrame(list of dicts): the columns are the keys in order of first
\* appearance, a key a row lacks is NaN in that row.
DataFrame(data) ==
    LET cols == UnionKeys(data, <<>>)
    IN  [columns |-> cols,
         values  |-> [r \in 1..Len(data) |->
                        [c \in 1..Len(cols) |->
                           IF cols[c] \in KeySet(data[r])
                           THEN DictGet(data[r], cols[c]) ELSE NaN]]]

RECURSIVE ZipDict(_, _, _)
ZipDict(cols, vals, acc) ==
    IF cols = <<>> THEN acc
    ELSE ZipDict(Tail(cols), Tail(vals), DictSet(acc, Head(cols), Head(vals)))

\* df.to_dict('records'): one dict per row; with duplicate labels the later
\* value wins and the key keeps its first position.
to_dict_records(df) ==
    [r \in 1..Len(df.values) |-> ZipDict(df.columns, df.values[r], <<>>)]

\* df.head(n)
head(df, n) ==
    [df EXCEPT !.values = SubSeq(df.values, 1, IF Len(df.values) < n THEN Len(df.values) ELSE n)]

\* df.columns = names
set_columns(df, names) == [df EXCEPT !.columns = names]

(***************************************************************************)
(* Store values.  A dcc.Store holds None until a callback writes it.       *)
(***************************************************************************)
NoneData == [kind |-> "None", columns |-> <<>>, data |-> <<>>]

EmptyDict == [kind |-> "Empty", columns |-> <<>>, data |-> <<>>]

CsvData(data, columns) == [kind |-> "Table", columns |-> columns, data |-> data]

\* truthiness taken as `is not None`: an empty dict passes
NotNone(d) == d.kind # "None"

Truthy(d) == d.kind = "Table"

NoneStack == [kind |-> "None", items |-> <<>>]

ListStack(items) == [kind |-> "List", items |-> items]

NoneFile == [kind |-> "None", contents |-> <<>>, valid |-> FALSE]

EmptyFile == [kind |-> "Empty", contents |-> <<>>, valid |-> FALSE]

(***************************************************************************)
(* The uploaded bytes.  A file is a sequence of lines and a line a         *)
(* sequence of tokens: text, or one of the delimiter characters.  `valid'  *)
(* is false for content that is not base64 of UTF-8 text.  The files are   *)
(* chosen so that no second line has more fields than the first one under  *)
(* any delimiter (pandas would read the extra leading fields as an index). *)
(***************************************************************************)
Delimiters == {",", ";"}

FilePeople ==
    [kind |-> "File", valid |-> TRUE,
     contents |-> << <<"name", ",", "age">>, <<"ann", ",", "7">> >>]

FileSemi ==
    [kind |-> "File", valid |-> TRUE,
     contents |-> << <<"a", ";", "New_Column_3">>, <<"7", ";", "">>,
                     <<"3", ",", "5", ";", "7">> >>]

FileHeaderOnly ==
    [kind |-> "File", valid |-> TRUE, contents |-> << <<"id", ",", "qty">> >>]

FileBad == [kind |-> "File", valid |-> FALSE, contents |-> <<>>]

Files == {FilePeople, FileSemi, FileHeaderOnly, FileBad}

RECURSIVE SplitLine(_, _, _, _)
SplitLine(tokens, d, field, acc) ==
    IF tokens = <<>> THEN Append(acc, field)
    ELSE IF Head(tokens) = d
         THEN SplitLine(Tail(tokens), d, "", Append(acc, field))
         ELSE SplitLine(Tail(tokens), d, field \o Head(tokens), acc)

\* pandas reads an empty field as NaN.
ParseCell(text) == IF text = "" THEN NaN ELSE text

\* pandas names an empty header field "Unnamed: i" and numbers a repeated one.
MangleNames(fields) ==
    LET named == [i \in 1..Len(fields) |->
                    IF fields[i] = "" THEN "Unnamed: " \o ToString(i - 1)
                    ELSE fields[i]]
        seen(i) == Cardinality({j \in 1..(i - 1) : named[j] = named[i]})
    IN  [i \in 1..Len(fields) |->
           IF seen(i) = 0 THEN named[i]
           ELSE named[i] \o "." \o ToString(seen(i))]

PositionalNames(n) == [i \in 1..n |-> "Column_" \o ToString(i)]

\* pd.read_csv(io.StringIO(decoded.decode('utf-8')), delimiter=..., header=...)
\* followed by the renaming to Column_i when there is no header row.
read_csv(file, d, has_header_bool) ==
    LET rows     == [i \in 1..Len(file.contents) |->
                       SplitLine(file.contents[i], d, "", <<>>)]
        width    == Len(rows[1])
        tooLong  == \E i \in 2..Len(rows) : Len(rows[i]) > width
        body     == IF has_header_bool THEN Tail(rows) ELSE rows
        cell(r, c) == IF c <= Len(r) THEN ParseCell(r[c]) ELSE NaN
    IN  IF ~file.valid \/ file.contents = <<>> \/ tooLong
        THEN [ok |-> FALSE, df |-> [columns |-> <<>>, values |-> <<>>]]
        ELSE [ok |-> TRUE,
              df |-> [columns |-> IF has_header_bool THEN MangleNames(rows[1])
                                  ELSE PositionalNames(width),
                      values  |-> [r \in 1..Len(body) |->
                                     [c \in 1..width |-> cell(body[r], c)]]]]

(***************************************************************************)
(* The preview.  Of the component tree create_preview_table builds, the    *)
(* model keeps the DataTable: its data (the first PREVIEW_ROWS rows), its  *)
(* column ids and its displayed header names.                              *)
(***************************************************************************)
NoPreview == [kind |-> "None", data |-> <<>>, ids |-> <<>>, names |-> <<>>]

ErrorPreview == [kind |-> "Error", data |-> <<>>, ids |-> <<>>, names |-> <<>>]

ClearedPreview == [kind |-> "Cleared", data |-> <<>>, ids |-> <<>>, names |-> <<>>]

Long51 == "aaaaaaaaaaaaaaaaaaaaaaaaaaaaaaaaaaaaaaaaaaaaaaaaaaa"

Long47 == "aaaaaaaaaaaaaaaaaaaaaaaaaaaaaaaaaaaaaaaaaaaaaaa"

\* s[:47], for the one string of the model longer than 47 characters
Prefix47(s) == IF s = Long51 THEN Long47 ELSE s

FirstRowHeader(v, i) ==
    LET header_value == IF v # NaN THEN v ELSE "Column_" \o ToString(i)
    IN  IF Len(header_value) > 50 THEN Prefix47(header_value) \o "..."
        ELSE header_value

create_preview_table(df, use_first_row_as_header) ==
    LET display_df == head(df, PREVIEW_ROWS)
    IN  [kind  |-> "Table",
         data  |-> to_dict_records(display_df),
         ids   |-> df.columns,
         names |-> IF use_first_row_as_header /\ Len(df.values) > 0
                   THEN [i \in 1..Len(df.columns) |->
                           FirstRowHeader(df.values[1][i], i)]
                   ELSE df.columns]

(***************************************************************************)
(* The undo stack helpers.                                                 *)
(***************************************************************************)
Falsy(undo_stack) == undo_stack.kind = "None" \/ undo_stack.items = <<>>

\* push_to_undo_stack keeping the first UNDO_LIMIT states (undo_stack[:UNDO_LIMIT])
push_keeps_oldest(undo_stack, new_state) ==
    LET appended == Append(IF undo_stack.kind = "None" THEN <<>> ELSE undo_stack.items,
                           new_state)
    IN  [kind |-> "List",
         items |-> IF Len(appended) > UNDO_LIMIT THEN SubSeq(appended, 1, UNDO_LIMIT)
                   ELSE appended]

push_to_undo_stack(undo_stack, new_state) ==
    LET appended == Append(IF Falsy(undo_stack) THEN <<>> ELSE undo_stack.items,
                           new_state)
    IN  ListStack(IF Len(appended) > UNDO_LIMIT
                  THEN SubSeq(appended, Len(appended) - UNDO_LIMIT + 1, Len(appended))
                  ELSE appended)

pop_from_undo_stack(undo_stack) ==
    IF Falsy(undo_stack)
    THEN [found |-> FALSE, previous_state |-> NoneData, stack |-> ListStack(<<>>)]
    ELSE [found |-> TRUE,
          previous_state |-> undo_stack.items[Len(undo_stack.items)],
          stack |-> ListStack(SubSeq(undo_stack.items, 1, Len(undo_stack.items) - 1))]

\* get_undo_count counting the entry that is being popped as well
count_with_popped(undo_stack) ==
    IF undo_stack.kind = "None" THEN 0 ELSE Len(undo_stack.items) + 1

get_undo_count(undo_stack) == IF Falsy(undo_stack) THEN 0 ELSE Len(undo_stack.items)

\* the children of undo-btn: the label and the number of steps it shows
update_undo_button_text(undo_stack) ==
    LET steps_available == get_undo_count(undo_stack)
    IN  IF steps_available > 0
        THEN [text |-> "Undo (" \o ToString(steps_available) \o ")",
              shown |-> steps_available]
        ELSE [text |-> "Undo", shown |-> 0]

\* csv_data.copy() is a shallow copy: it shares the 'data' list, the row
\* dicts and the 'columns' list with csv_data.  What the copy holds when the
\* callback returns is, for each key the callback did not rebind in csv_data,
\* the object as the callback left it.
ShallowCopyAfter(before, after, rebound) ==
    CsvData(IF "data" \in rebound THEN before.data ELSE after.data,
            IF "columns" \in rebound THEN before.columns ELSE after.columns)

(***************************************************************************)
(* State.                                                                  *)
(*   file_data, csv_data, original_data, undo_stack: the dcc.Store values  *)
(*   preview: the preview section (its DataTable)                          *)
(*   delimiter, has_header: the parse-setting inputs of the page           *)
(*   status: the class of the message in the status area                   *)
(* History variables, written by every action and read by none:            *)
(*   nops: callbacks run so far                                            *)
(*   last: the last callback, its outcome and the stores it was given      *)
(*   pres: the snapshots that were current right before each mutation of   *)
(*         the present run of consecutive mutations                        *)
(*   undone: undo calls made since the last mutation of that run           *)
(*   uploaded: the snapshot decoded by the last successful upload          *)
(*   args: what the last callback was given by the page's inputs           *)
(***************************************************************************)
VARIABLES file_data, csv_data, original_data, undo_stack, preview,
          delimiter, has_header, status, nops, last, pres, undone, uploaded,
          args

vars == <<file_data, csv_data, original_data, undo_stack, preview,
          delimiter, has_header, status, nops, last, pres, undone, uploaded,
          args>>

\* the n_clicks, the dropdown value and the table data a callback was given;
\* 0, "" and <<>> for an input the callback does not have
Args(n_clicks, selected_column, table_data) ==
    [n_clicks |-> n_clicks, selected_column |-> selected_column,
     table_data |-> table_data]

NoArgs == Args(0, "", <<>>)

Called(op, outcome) ==
    [op |-> op, outcome |-> outcome, csv_data |-> csv_data,
     undo_stack |-> undo_stack, original_data |-> original_data,
     file_data |-> file_data]

\* raise PreventUpdate: no output is written
PreventUpdate(op) ==
    /\ last' = Called(op, "prevented")
    /\ nops' = nops + 1
    /\ UNCHANGED <<file_data, csv_data, original_data, undo_stack, preview,
                   delimiter, has_header, status, pres, undone, uploaded>>

\* history of a callback that committed a mutation of csv_data
Mutated(op) ==
    /\ last' = Called(op, "ok")
    /\ nops' = nops + 1
    /\ pres' = IF undone > 0 THEN <<csv_data>> ELSE Append(pres, csv_data)
    /\ undone' = 0
    /\ UNCHANGED uploaded

\* history of a callback that starts a new run
Restarted(op, outcome) ==
    /\ last' = Called(op, outcome)
    /\ nops' = nops + 1
    /\ pres' = <<>>
    /\ undone' = 0
    /\ UNCHANGED uploaded

\* history of a callback that starts or ends a session
Began(op, snapshot) ==
    /\ last' = Called(op, "ok")
    /\ nops' = nops + 1
    /\ pres' = <<>>
    /\ undone' = 0
    /\ uploaded' = snapshot

\* history of a callback that only reports
Reported(op, outcome) ==
    /\ last' = Called(op, outcome)
    /\ nops' = nops + 1
    /\ UNCHANGED <<pres, undone, uploaded>>

(***************************************************************************)
(* The state of the server process, shared by every request:               *)
(*   DATABRICKS_AVAILABLE: whether the import of the SDK succeeded         *)
(*   w, auth_attempted: the module globals w and _auth_attempted; w is 0   *)
(*        for None and n for the n-th WorkspaceClient constructed          *)
(*   sql_query: the attribute app.server.sql_query; "" while it is unset   *)
(*   requests: the requests inside get_databricks_client                   *)
(*   sessions: the browser sessions other than the one of the page         *)
(*        variables above, each with its own stores                        *)
(* History variables:                                                      *)
(*   constructions: calls of WorkspaceClient() so far                      *)
(*   returned: what each finished call of get_databricks_client returned,  *)
(*        and the value of _auth_attempted it left                         *)
(***************************************************************************)
VARIABLES DATABRICKS_AVAILABLE, w, auth_attempted, sql_query, requests,
          sessions, constructions, returned

procvars == <<DATABRICKS_AVAILABLE, w, auth_attempted, sql_query, requests,
              sessions, constructions, returned>>

Requests == {1, 2}

Sessions == {1, 2}

NoRequest == [pc |-> "idle", auth_ok |-> FALSE, client |-> 0, result |-> 0]

\* a session's csv-data-store, its last callback and that callback's
\* outcome, the statement its last Create Delta Table generated and the
\* statement its last Execute SQL submitted ("" for none)
NoSession ==
    [csv_data |-> NoneData, op |-> "init", outcome |-> "ok",
     generated |-> "", submitted |-> ""]

\* the process after the module has been imported
ProcessInit(available) ==
    /\ DATABRICKS_AVAILABLE = available
    /\ w = 0
    /\ auth_attempted = FALSE
    /\ sql_query = ""
    /\ requests = [r \in Requests |-> NoRequest]
    /\ sessions = [s \in Sessions |-> NoSession]
    /\ constructions = 0
    /\ returned = <<>>

\* a callback that calls neither get_databricks_client nor app.server
ProcessIdle == UNCHANGED procvars

\* undo-btn's children: Dash runs update_undo_button_text at page load and
\* after every callback that writes undo-stack-store, so the button shows
\* what the callback returns for the store's value
undo_btn == update_undo_button_text(undo_stack)

Status(class, text, n) == [class |-> class, text |-> text, remaining |-> n]

NoStatus == Status("none", "", 0)

Init ==
    /\ file_data = NoneFile
    /\ csv_data = NoneData
    /\ original_data = NoneData
    /\ undo_stack = NoneStack
    /\ preview = NoPreview
    /\ delimiter = ","
    /\ has_header = TRUE
    /\ status = NoStatus
    /\ nops = 0
    /\ last = [op |-> "init", outcome |-> "ok", csv_data |-> NoneData,
               undo_stack |-> NoneStack, original_data |-> NoneData,
               file_data |-> NoneFile]
    /\ pres = <<>>
    /\ undone = 0
    /\ uploaded = NoneData
    /\ args = NoArgs
    /\ ProcessInit(TRUE)

\* process_upload keeping the undo stack of the session before
upload_keeps_history(contents) ==
    args' = NoArgs /\
    IF contents.kind = "None" THEN PreventUpdate("upload")
    ELSE LET parsed == read_csv(contents, delimiter, has_header)
             csv    == CsvData(to_dict_records(parsed.df), parsed.df.columns)
         IN  IF parsed.ok
             THEN /\ file_data' = contents
                  /\ csv_data' = csv
                  /\ original_data' = csv
                  /\ undo_stack' = IF Falsy(undo_stack) THEN ListStack(<<>>) ELSE undo_stack
                  /\ preview' = create_preview_table(parsed.df, has_header)
                  /\ Began("upload", csv)
                  /\ UNCHANGED <<delimiter, has_header, status>>
             ELSE /\ preview' = ErrorPreview
                  /\ Reported("upload", "error")
                  /\ UNCHANGED <<file_data, csv_data, original_data, undo_stack,
                                 delimiter, has_header, status>>

\* process_upload storing the file before it is decoded
upload_stores_file_first(contents) ==
    args' = NoArgs /\
    IF contents.kind = "None" THEN PreventUpdate("upload")
    ELSE LET parsed == read_csv(contents, delimiter, has_header)
             csv    == CsvData(to_dict_records(parsed.df), parsed.df.columns)
         IN  IF parsed.ok
             THEN /\ file_data' = contents
                  /\ csv_data' = csv
                  /\ original_data' = csv
                  /\ undo_stack' = ListStack(<<>>)
                  /\ preview' = create_preview_table(parsed.df, has_header)
                  /\ Began("upload", csv)
                  /\ UNCHANGED <<delimiter, has_header, status>>
             ELSE /\ file_data' = contents
                  /\ preview' = ErrorPreview
                  /\ Reported("upload", "error")
                  /\ UNCHANGED <<csv_data, original_data, undo_stack,
                                 delimiter, has_header, status>>

(***************************************************************************)
(* process_upload                                                          *)
(***************************************************************************)
process_upload(contents) ==
    args' = NoArgs /\
    IF contents.kind = "None" THEN PreventUpdate("upload")
    ELSE LET parsed == read_csv(contents, delimiter, has_header)
             csv    == CsvData(to_dict_records(parsed.df), parsed.df.columns)
         IN  IF parsed.ok
             THEN /\ file_data' = contents
                  /\ csv_data' = csv
                  /\ original_data' = csv
                  /\ undo_stack' = ListStack(<<>>)
                  /\ preview' = create_preview_table(parsed.df, has_header)
                  /\ Began("upload", csv)
                  /\ UNCHANGED <<delimiter, has_header, status>>
             ELSE /\ preview' = ErrorPreview
                  /\ Reported("upload", "error")
                  /\ UNCHANGED <<file_data, csv_data, original_data, undo_stack,
                                 delimiter, has_header, status>>

(***************************************************************************)
(* add_row                                                                 *)
(***************************************************************************)
add_row(n_clicks) ==
    args' = Args(n_clicks, "", <<>>) /\
    IF n_clicks = 0 \/ ~Truthy(csv_data) THEN PreventUpdate("addRow")
    ELSE LET new_row == ZipDict(csv_data.columns,
                                [i \in 1..Len(csv_data.columns) |-> ""], <<>>)
             \* csv_data['data'].append(new_row), on the list the copy shares
             after   == CsvData(Append(csv_data.data, new_row), csv_data.columns)
             pushed  == ShallowCopyAfter(csv_data, after, {})
         IN  /\ csv_data' = after
             /\ undo_stack' = push_to_undo_stack(undo_stack, pushed)
             /\ preview' = create_preview_table(DataFrame(after.data), TRUE)
             /\ Mutated("addRow")
             /\ UNCHANGED <<file_data, original_data, delimiter, has_header, status>>

(***************************************************************************)
(* add_column                                                              *)
(***************************************************************************)
add_column(n_clicks) ==
    args' = Args(n_clicks, "", <<>>) /\
    IF n_clicks = 0 \/ ~Truthy(csv_data) THEN PreventUpdate("addColumn")
    ELSE LET new_col_name == "New_Column_" \o ToString(Len(csv_data.columns) + 1)
             \* csv_data['columns'].append and row[new_col_name] = '', both on
             \* objects the copy shares
             after  == CsvData([r \in 1..Len(csv_data.data) |->
                                  DictSet(csv_data.data[r], new_col_name, "")],
                               Append(csv_data.columns, new_col_name))
             pushed == ShallowCopyAfter(csv_data, after, {})
         IN  /\ csv_data' = after
             /\ undo_stack' = push_to_undo_stack(undo_stack, pushed)
             /\ preview' = create_preview_table(DataFrame(after.data), TRUE)
             /\ Mutated("addColumn")
             /\ UNCHANGED <<file_data, original_data, delimiter, has_header, status>>

(***************************************************************************)
(* update_csv_data_with_headers: the DataTable's data changed.  table_data *)
(* is <<>> for None and for an empty list.  The table keeps the data the   *)
(* user left in it unless the callback renders a new preview.              *)
(***************************************************************************)
\* str(value): cells are modelled by their text
str(v) == v

update_csv_data_with_headers(table_data) ==
    args' = Args(0, "", table_data) /\
    IF table_data = <<>> \/ ~Truthy(csv_data)
    THEN /\ preview' = [preview EXCEPT !.data = table_data]
         /\ last' = Called("applyTableEdits", "prevented")
         /\ nops' = nops + 1
         /\ UNCHANGED <<file_data, csv_data, original_data, undo_stack,
                        delimiter, has_header, status, pres, undone, uploaded>>
    ELSE LET df == DataFrame(table_data)
             new_column_names ==
                 [i \in 1..Len(df.columns) |->
                    IF df.values[1][i] # NaN THEN str(df.values[1][i])
                    ELSE "Column_" \o ToString(i)]
             after == IF has_header /\ Len(df.values) > 0
                      THEN CsvData(to_dict_records(set_columns(df, new_column_names)),
                                   new_column_names)
                      ELSE CsvData(to_dict_records(df), df.columns)
             \* csv_data['data'] and csv_data['columns'] are both rebound
             pushed == ShallowCopyAfter(csv_data, after, {"data", "columns"})
         IN  /\ csv_data' = after
             /\ undo_stack' = push_to_undo_stack(undo_stack, pushed)
             /\ preview' = IF has_header /\ Len(df.values) > 0
                           THEN create_preview_table(df, TRUE)
                           ELSE [preview EXCEPT !.data = table_data]
             /\ Mutated("applyTableEdits")
             /\ UNCHANGED <<file_data, original_data, delimiter, has_header, status>>

\* remove_file leaving the original-data store as it is
remove_keeps_original(n_clicks) ==
    args' = Args(n_clicks, "", <<>>) /\
    IF n_clicks = 0 THEN PreventUpdate("removeFile")
    ELSE /\ file_data' = EmptyFile
         /\ csv_data' = EmptyDict
         /\ undo_stack' = ListStack(<<>>)
         /\ preview' = ClearedPreview
         /\ status' = NoStatus
         /\ Began("removeFile", NoneData)
         /\ UNCHANGED <<original_data, delimiter, has_header>>

(***************************************************************************)
(* remove_file                                                             *)
(***************************************************************************)
remove_file(n_clicks) ==
    args' = Args(n_clicks, "", <<>>) /\
    IF n_clicks = 0 THEN PreventUpdate("removeFile")
    ELSE /\ file_data' = EmptyFile
         /\ csv_data' = EmptyDict
         /\ original_data' = EmptyDict
         /\ undo_stack' = ListStack(<<>>)
         /\ preview' = ClearedPreview
         /\ status' = NoStatus
         /\ Began("removeFile", NoneData)
         /\ UNCHANGED <<delimiter, has_header>>

(***************************************************************************)
(* undo_changes                                                            *)
(***************************************************************************)
\* the empty-stack message given the class of a failure
NothingToUndoAsError == [class |-> "status-error", text |-> "No previous state to undo",
                         remaining |-> 0]

NothingToUndo == Status("status-warning", "No previous state to undo", 0)

undo_changes(n_clicks) ==
    args' = Args(n_clicks, "", <<>>) /\
    IF n_clicks = 0 THEN PreventUpdate("undo")
    ELSE LET popped == pop_from_undo_stack(undo_stack)
             remaining_steps == get_undo_count(popped.stack)
         IN  IF ~popped.found
             THEN /\ status' = NothingToUndo
                  /\ last' = Called("undo", "warning")
                  /\ nops' = nops + 1
                  /\ undone' = undone + 1
                  /\ UNCHANGED <<file_data, csv_data, original_data, undo_stack,
                                 preview, delimiter, has_header, pres, uploaded>>
             ELSE /\ csv_data' = popped.previous_state
                  /\ undo_stack' = popped.stack
                  /\ preview' = create_preview_table(
                                    DataFrame(popped.previous_state.data), TRUE)
                  /\ status' = Status("status-success", "Changes undone successfully",
                                      remaining_steps)
                  /\ last' = Called("undo", "ok")
                  /\ nops' = nops + 1
                  /\ undone' = undone + 1
                  /\ UNCHANGED <<file_data, original_data, delimiter, has_header, pres,
                                 uploaded>>

(***************************************************************************)
(* revert_to_original                                                      *)
(***************************************************************************)
\* revert_to_original without the push of the current state
revert_keeps_stack == undo_stack

\* updated_stack of revert_to_original
revert_updated_stack ==
    IF Truthy(csv_data) THEN push_to_undo_stack(undo_stack, csv_data) ELSE undo_stack

\* revert_to_original without the `not original_data.get('data')` check
revert_without_rows_check(n_clicks) ==
    args' = Args(n_clicks, "", <<>>) /\
    IF n_clicks = 0 \/ ~Truthy(original_data)
    THEN /\ status' = Status("status-warning", "No original data to revert to", 0)
         /\ Reported("revert", IF n_clicks = 0 THEN "unclicked" ELSE "warning")
         /\ UNCHANGED <<file_data, csv_data, original_data, undo_stack, preview,
                        delimiter, has_header>>
    ELSE /\ undo_stack' = revert_updated_stack
         /\ csv_data' = original_data
         /\ preview' = create_preview_table(DataFrame(original_data.data), TRUE)
         /\ status' = Status("status-success", "Reverted to original data successfully", 0)
         /\ Restarted("revert", "ok")
         /\ UNCHANGED <<file_data, original_data, delimiter, has_header>>

revert_to_original(n_clicks) ==
    args' = Args(n_clicks, "", <<>>) /\
    IF n_clicks = 0 \/ ~Truthy(original_data) \/ original_data.data = <<>>
    THEN /\ status' = Status("status-warning", "No original data to revert to", 0)
         /\ Reported("revert", IF n_clicks = 0 THEN "unclicked" ELSE "warning")
         /\ UNCHANGED <<file_data, csv_data, original_data, undo_stack, preview,
                        delimiter, has_header>>
    ELSE /\ undo_stack' = revert_updated_stack
         /\ csv_data' = original_data
         /\ preview' = create_preview_table(DataFrame(original_data.data), TRUE)
         /\ status' = Status("status-success", "Reverted to original data successfully", 0)
         /\ Restarted("revert", "ok")
         /\ UNCHANGED <<file_data, original_data, delimiter, has_header>>

\* delete_column_dropdown without the check that the selected column exists
delete_without_lookup(n_clicks, selected_column) ==
    args' = Args(n_clicks, selected_column, <<>>) /\
    IF n_clicks = 0 \/ selected_column = "" \/ ~Truthy(csv_data)
    THEN PreventUpdate("deleteColumn")
    ELSE IF Len(csv_data.columns) <= 1
    THEN /\ status' = Status("status-error", "Cannot remove the last remaining column!", 0)
         /\ Reported("deleteColumn", "last-column")
         /\ UNCHANGED <<file_data, csv_data, original_data, undo_stack, preview,
                        delimiter, has_header>>
    ELSE LET after  == CsvData([r \in 1..Len(csv_data.data) |->
                                  DictDel(csv_data.data[r], selected_column)],
                               SelectSeq(csv_data.columns,
                                         LAMBDA col : col # selected_column))
             pushed == ShallowCopyAfter(csv_data, after, {"columns"})
         IN  /\ csv_data' = after
             /\ undo_stack' = push_to_undo_stack(undo_stack, pushed)
             /\ preview' = create_preview_table(DataFrame(after.data), TRUE)
             /\ status' = Status("status-success", "Successfully removed column", 0)
             /\ Mutated("deleteColumn")
             /\ UNCHANGED <<file_data, original_data, delimiter, has_header>>

(***************************************************************************)
(* delete_column_dropdown.  selected_column "" stands for None and for     *)
(* the empty string, which the guard treats alike.                         *)
(***************************************************************************)
delete_column_dropdown(n_clicks, selected_column) ==
    args' = Args(n_clicks, selected_column, <<>>) /\
    IF n_clicks = 0 \/ selected_column = "" \/ ~Truthy(csv_data)
    THEN PreventUpdate("deleteColumn")
    ELSE IF Len(csv_data.columns) <= 1
    THEN /\ status' = Status("status-error", "Cannot remove the last remaining column!", 0)
         /\ Reported("deleteColumn", "last-column")
         /\ UNCHANGED <<file_data, csv_data, original_data, undo_stack, preview,
                        delimiter, has_header>>
    ELSE IF selected_column \notin Range(csv_data.columns)
    THEN /\ status' = Status("status-error", "Column not found!", 0)
         /\ Reported("deleteColumn", "not-found")
         /\ UNCHANGED <<file_data, csv_data, original_data, undo_stack, preview,
                        delimiter, has_header>>
    ELSE LET \* csv_data['columns'] is rebound to a new list; the rows are
             \* changed in place, in the list the copy shares
             after  == CsvData([r \in 1..Len(csv_data.data) |->
                                  DictDel(csv_data.data[r], selected_column)],
                               SelectSeq(csv_data.columns,
                                         LAMBDA col : col # selected_column))
             pushed == ShallowCopyAfter(csv_data, after, {"columns"})
         IN  /\ csv_data' = after
             /\ undo_stack' = push_to_undo_stack(undo_stack, pushed)
             /\ preview' = create_preview_table(DataFrame(after.data), TRUE)
             /\ status' = Status("status-success", "Successfully removed column", 0)
             /\ Mutated("deleteColumn")
             /\ UNCHANGED <<file_data, original_data, delimiter, has_header>>

\* update_on_delimiter_change storing the re-parsed table as the original too
reparse_resets_original(new_delimiter, new_has_header) ==
    /\ args' = NoArgs
    /\ delimiter' = new_delimiter
    /\ has_header' = new_has_header
    /\ IF file_data.kind # "File"
       THEN /\ last' = Called("changeParseSettings", "prevented")
            /\ nops' = nops + 1
            /\ UNCHANGED <<file_data, csv_data, original_data, undo_stack, preview,
                           status, pres, undone, uploaded>>
       ELSE LET parsed == read_csv(file_data, new_delimiter, new_has_header)
            IN  IF parsed.ok
                THEN /\ csv_data' = CsvData(to_dict_records(parsed.df), parsed.df.columns)
                     /\ original_data' = csv_data'
                     /\ preview' = create_preview_table(parsed.df, new_has_header)
                     /\ Restarted("changeParseSettings", "ok")
                     /\ UNCHANGED <<file_data, undo_stack, status>>
                ELSE /\ preview' = ErrorPreview
                     /\ Reported("changeParseSettings", "error")
                     /\ UNCHANGED <<file_data, csv_data, original_data, undo_stack,
                                    status>>

\* update_on_delimiter_change pushing the replaced table onto the undo stack
reparse_pushes_undo(new_delimiter, new_has_header) ==
    /\ args' = NoArgs
    /\ delimiter' = new_delimiter
    /\ has_header' = new_has_header
    /\ IF file_data.kind # "File"
       THEN /\ last' = Called("changeParseSettings", "prevented")
            /\ nops' = nops + 1
            /\ UNCHANGED <<file_data, csv_data, original_data, undo_stack, preview,
                           status, pres, undone, uploaded>>
       ELSE LET parsed == read_csv(file_data, new_delimiter, new_has_header)
            IN  IF parsed.ok
                THEN /\ csv_data' = CsvData(to_dict_records(parsed.df), parsed.df.columns)
                     /\ undo_stack' = push_to_undo_stack(undo_stack, csv_data)
                     /\ preview' = create_preview_table(parsed.df, new_has_header)
                     /\ Restarted("changeParseSettings", "ok")
                     /\ UNCHANGED <<file_data, original_data, status>>
                ELSE /\ preview' = ErrorPreview
                     /\ Reported("changeParseSettings", "error")
                     /\ UNCHANGED <<file_data, csv_data, original_data, undo_stack,
                                    status>>

\* update_on_delimiter_change falling back to the uploaded table when the
\* file cannot be read under the new settings
reparse_failure_reverts(new_delimiter, new_has_header) ==
    /\ args' = NoArgs
    /\ delimiter' = new_delimiter
    /\ has_header' = new_has_header
    /\ IF file_data.kind # "File"
       THEN /\ last' = Called("changeParseSettings", "prevented")
            /\ nops' = nops + 1
            /\ UNCHANGED <<file_data, csv_data, original_data, undo_stack, preview,
                           status, pres, undone, uploaded>>
       ELSE LET parsed == read_csv(file_data, new_delimiter, new_has_header)
            IN  IF parsed.ok
                THEN /\ csv_data' = CsvData(to_dict_records(parsed.df), parsed.df.columns)
                     /\ preview' = create_preview_table(parsed.df, new_has_header)
                     /\ Restarted("changeParseSettings", "ok")
                     /\ UNCHANGED <<file_data, original_data, undo_stack, status>>
                ELSE /\ csv_data' = original_data
                     /\ preview' = ErrorPreview
                     /\ Reported("changeParseSettings", "error")
                     /\ UNCHANGED <<file_data, original_data, undo_stack, status>>

(***************************************************************************)
(* update_on_delimiter_change: the delimiter or the header checkbox was    *)
(* changed to (new_delimiter, new_has_header).                             *)
(***************************************************************************)
update_on_delimiter_change(new_delimiter, new_has_header) ==
    /\ args' = NoArgs
    /\ delimiter' = new_delimiter
    /\ has_header' = new_has_header
    /\ IF file_data.kind # "File"
       THEN /\ last' = Called("changeParseSettings", "prevented")
            /\ nops' = nops + 1
            /\ UNCHANGED <<file_data, csv_data, original_data, undo_stack, preview,
                           status, pres, undone, uploaded>>
       ELSE LET parsed == read_csv(file_data, new_delimiter, new_has_header)
            IN  IF parsed.ok
                THEN /\ csv_data' = CsvData(to_dict_records(parsed.df), parsed.df.columns)
                     /\ preview' = create_preview_table(parsed.df, new_has_header)
                     /\ Restarted("changeParseSettings", "ok")
                     /\ UNCHANGED <<file_data, original_data, undo_stack, status>>
                ELSE /\ preview' = ErrorPreview
                     /\ Reported("changeParseSettings", "error")
                     /\ UNCHANGED <<file_data, csv_data, original_data, undo_stack,
                                    status>>

(***************************************************************************)
(* The events of the page.                                                 *)
(***************************************************************************)
NClicks == {0, 1}

\* what the user types into a cell: nothing, a short text, a text of 51 characters
EditValues == {"", "7", Long51}

\* What the DataTable can send after one user action on the table it shows:
\* the same data (a re-render or a sort), one cell changed, one row deleted.
TableEdits(p) ==
    IF p.kind # "Table" THEN {<<>>}
    ELSE {p.data}
         \cup {[p.data EXCEPT ![r] = DictSet(p.data[r], k, v)] :
                 r \in 1..Len(p.data), k \in Range(p.ids), v \in EditValues}
         \cup {SubSeq(p.data, 1, r - 1) \o SubSeq(p.data, r + 1, Len(p.data)) :
                 r \in 1..Len(p.data)}

\* What the delete dropdown can hold: nothing, a column, a name no longer there.
Selections == Range(csv_data.columns) \cup {"", "gone"}

Upload == \E contents \in Files \cup {NoneFile} : process_upload(contents)

ChangeSetting ==
    \E d \in Delimiters, h \in BOOLEAN :
        /\ (d # delimiter) # (h # has_header)
        /\ update_on_delimiter_change(d, h)

AddRow == \E n \in NClicks : add_row(n)

AddColumn == \E n \in NClicks : add_column(n)

DeleteColumn == \E n \in NClicks, c \in Selections : delete_column_dropdown(n, c)

EditTable == \E table_data \in TableEdits(preview) : update_csv_data_with_headers(table_data)

Undo == \E n \in NClicks : undo_changes(n)

Revert == \E n \in NClicks : revert_to_original(n)

RemoveFile == \E n \in NClicks : remove_file(n)

Next ==
    \/ nops < MaxOps /\ Upload /\ ProcessIdle
    \/ nops < MaxOps /\ ChangeSetting /\ ProcessIdle
    \/ nops < MaxOps /\ AddRow /\ ProcessIdle
    \/ nops < MaxOps /\ AddColumn /\ ProcessIdle
    \/ nops < MaxOps /\ DeleteColumn /\ ProcessIdle
    \/ nops < MaxOps /\ EditTable /\ ProcessIdle
    \/ nops < MaxOps /\ Undo /\ ProcessIdle
    \/ nops < MaxOps /\ Revert /\ ProcessIdle
    \/ nops < MaxOps /\ RemoveFile /\ ProcessIdle

Spec == Init /\ [][Next]_vars

(***************************************************************************)
(* Long editing sessions: a session right after the upload of FilePeople,  *)
(* then Add Row, Undo and re-sent tables only, so that the undo stack     *)
(* fills up.                                                               *)
(***************************************************************************)
InitDeep ==
    LET parsed == read_csv(FilePeople, ",", TRUE)
        csv    == CsvData(to_dict_records(parsed.df), parsed.df.columns)
    IN  /\ file_data = FilePeople
        /\ csv_data = csv
        /\ original_data = csv
        /\ undo_stack = ListStack(<<>>)
        /\ preview = create_preview_table(parsed.df, TRUE)
        /\ delimiter = ","
        /\ has_header = TRUE
        /\ status = NoStatus
        /\ nops = 0
        /\ last = [op |-> "upload", outcome |-> "ok", csv_data |-> NoneData,
                   undo_stack |-> NoneStack, original_data |-> NoneData,
                   file_data |-> NoneFile]
        /\ pres = <<>>
        /\ undone = 0
        /\ uploaded = csv
        /\ args = NoArgs
        /\ ProcessInit(TRUE)

DeepAddRow == nops < MaxDeepOps /\ add_row(1) /\ ProcessIdle

DeepResend ==
    nops < MaxDeepOps /\ update_csv_data_with_headers(preview.data) /\ ProcessIdle

DeepUndo == nops < MaxDeepOps /\ undo_changes(1) /\ ProcessIdle

NextDeep == DeepAddRow \/ DeepResend \/ DeepUndo

SpecDeep == InitDeep /\ [][NextDeep]_vars

(***************************************************************************)
(* Tables longer than the preview: files of PREVIEW_ROWS and of            *)
(* PREVIEW_ROWS + 1 data rows are uploaded, and one cell of the displayed  *)
(* table is edited at a time.                                              *)
(***************************************************************************)
FileOfRows(n) ==
    [kind |-> "File", valid |-> TRUE,
     contents |-> << <<"name", ",", "age">> >> \o
                  [r \in 1..n |-> <<"ann", ",", ToString(r)>>]]

LongFiles == {FileOfRows(PREVIEW_ROWS), FileOfRows(PREVIEW_ROWS + 1)}

\* the data the DataTable sends after the user changed one cell of it
CellEdits(p) ==
    {[p.data EXCEPT ![r] = DictSet(p.data[r], k, v)] :
        r \in {1, Len(p.data)}, k \in Range(p.ids), v \in EditValues}

LongUpload ==
    /\ nops < MaxLongOps
    /\ \E contents \in LongFiles : process_upload(contents)
    /\ ProcessIdle

LongEditCell ==
    /\ nops < MaxLongOps
    /\ preview.kind = "Table" /\ preview.data # <<>>
    /\ \E table_data \in CellEdits(preview) : update_csv_data_with_headers(table_data)
    /\ ProcessIdle

LongUndo == nops < MaxLongOps /\ undo_changes(1) /\ ProcessIdle

NextLong == LongUpload \/ LongEditCell \/ LongUndo

SpecLong == Init /\ [][NextLong]_vars

(***************************************************************************)
(* The page's dispatch.  preview-table is created by create_preview_table  *)
(* and put into the page by every callback that writes preview-section.    *)
(* update_csv_data_with_headers has preview-table's data as its Input and  *)
(* none of its Outputs is inside the inserted children, so the page        *)
(* requests it for the table a callback inserted, with that table's data;  *)
(* prevent_initial_call=True stops the call at page load only.  A callback *)
(* is not requested again for what it inserted itself.  Here the user      *)
(* uploads and clicks but never edits the table.                           *)
(***************************************************************************)
ClickOps == {"addRow", "addColumn", "deleteColumn", "undo", "revert"}

\* the last callback put a new preview-table into preview-section
TableInserted ==
    /\ last.op \in ClickOps \cup {"upload"}
    /\ last.outcome = "ok"
    /\ preview.kind = "Table"

TableDataInput ==
    /\ nops < MaxEventOps
    /\ TableInserted
    /\ update_csv_data_with_headers(preview.data)
    /\ ProcessIdle

EventUpload == nops < MaxEventOps /\ ~TableInserted /\ Upload /\ ProcessIdle

EventAddRow == nops < MaxEventOps /\ ~TableInserted /\ AddRow /\ ProcessIdle

EventAddColumn == nops < MaxEventOps /\ ~TableInserted /\ AddColumn /\ ProcessIdle

EventDeleteColumn == nops < MaxEventOps /\ ~TableInserted /\ DeleteColumn /\ ProcessIdle

EventUndo == nops < MaxEventOps /\ ~TableInserted /\ Undo /\ ProcessIdle

EventRevert == nops < MaxEventOps /\ ~TableInserted /\ Revert /\ ProcessIdle

NextEvents ==
    \/ TableDataInput
    \/ EventUpload
    \/ EventAddRow
    \/ EventAddColumn
    \/ EventDeleteColumn
    \/ EventUndo
    \/ EventRevert

SpecEvents == Init /\ [][NextEvents]_vars

(***************************************************************************)
(* get_databricks_client.  auth_ok is whether WorkspaceClient() returns    *)
(* (TRUE) or raises, should the call construct one.  The value is what     *)
(* the call returns and what it leaves in the globals.                     *)
(***************************************************************************)
ClientCall(result, client, attempted, constructed) ==
    [result |-> result, w |-> client, auth_attempted |-> attempted,
     constructions |-> constructed]

\* get_databricks_client without the `if _auth_attempted: return None` check
client_retrying_after_failure(auth_ok) ==
    IF ~DATABRICKS_AVAILABLE THEN ClientCall(0, w, auth_attempted, constructions)
    ELSE IF w # 0 THEN ClientCall(w, w, auth_attempted, constructions)
    ELSE IF auth_ok
         THEN ClientCall(constructions + 1, constructions + 1, TRUE, constructions + 1)
         ELSE ClientCall(0, w, TRUE, constructions + 1)

get_databricks_client(auth_ok) ==
    IF ~DATABRICKS_AVAILABLE THEN ClientCall(0, w, auth_attempted, constructions)
    ELSE IF w # 0 THEN ClientCall(w, w, auth_attempted, constructions)
    ELSE IF auth_attempted THEN ClientCall(0, w, auth_attempted, constructions)
    ELSE IF auth_ok
         THEN ClientCall(constructions + 1, constructions + 1, TRUE, constructions + 1)
         ELSE ClientCall(0, w, TRUE, constructions + 1)

\* the globals and the history after a call that ran without interruption
GotClient(call) ==
    /\ w' = call.w
    /\ auth_attempted' = call.auth_attempted
    /\ constructions' = call.constructions
    /\ returned' = Append(returned, [result |-> call.result,
                                     auth_attempted |-> call.auth_attempted])

\* the same, for a callback of the page's session
Got(call) ==
    /\ GotClient(call)
    /\ UNCHANGED <<DATABRICKS_AVAILABLE, requests, sessions>>

(***************************************************************************)
(* The values of the cells as Python objects.  A store holds JSON: a cell  *)
(* read from the file as a number comes back as an int or a float, a       *)
(* missing cell as None, every other cell as a str.  The model keeps the   *)
(* text of a cell only; a text that reads as a number is taken to be that  *)
(* number.                                                                 *)
(***************************************************************************)
IntegerTexts == {ToString(n) : n \in 0..(PREVIEW_ROWS + 1)}

DecimalTexts == {"7.5"}

PyType(v) ==
    IF v = NaN THEN "NoneType"
    ELSE IF v \in IntegerTexts THEN "int"
    ELSE IF v \in DecimalTexts THEN "float"
    ELSE "str"

\* the dtype pandas gives a column of pd.DataFrame(list of dicts)
dtype(values) ==
    LET types == {PyType(values[i]) : i \in 1..Len(values)}
    IN  IF "str" \in types \/ types = {"NoneType"} THEN "object"
        ELSE IF types = {"int"} THEN "int64"
        ELSE "float64"

sql_type(column_dtype) ==
    IF column_dtype = "object" THEN "STRING"
    ELSE IF column_dtype \in {"int64", "int32"} THEN "BIGINT"
    ELSE IF column_dtype \in {"float64", "float32"} THEN "DOUBLE"
    ELSE "STRING"

\* df.dtypes
dtypes(df) ==
    [c \in 1..Len(df.columns) |-> dtype([r \in 1..Len(df.values) |-> df.values[r][c]])]

\* separator.join(items)
RECURSIVE join(_, _)
join(separator, items) ==
    IF items = <<>> THEN ""
    ELSE IF Len(items) = 1 THEN items[1]
    ELSE items[1] \o separator \o join(separator, Tail(items))

\* the text of the statement for the column names and SQL types given; the
\* backquotes around a column name are written as double quotes
CreateTableStatement(table_name_final, names, types, location_path) ==
    LET columns_sql == [c \in 1..Len(names) |->
                          "\"" \o names[c] \o "\" " \o types[c]]
        columns_def == join(",\n  ", columns_sql)
    IN  "CREATE TABLE " \o table_name_final \o " (\n  " \o columns_def
            \o "\n)\nUSING DELTA\nLOCATION '" \o location_path \o "'"

(***************************************************************************)
(* The inputs of the publishing callbacks: upload-filename, table-name     *)
(* and volume-path.  "" is an input left empty (None or '').  volume-path  *)
(* is written by update_volume_path when the page loads and whenever the   *)
(* catalog, schema or volume input changes.                                *)
(***************************************************************************)
DEFAULT_VOLUME_PATH == "/Volumes/ingest_demo/medical_providers/providers/"

VolumePaths == {DEFAULT_VOLUME_PATH, "/Volumes/"}

UploadFilenames == {"", "my-data.csv"}

TableNames == {"", "people"}

DATABRICKS_HTTP_PATH == "/sql/1.0/warehouses/a1a5ed85eea63273"

\* filename.endswith('.csv'), for the file names of the model
endswith_csv(filename) == filename = "my-data.csv"

\* filename.replace('.csv', '').replace(' ', '_').replace('-', '_').lower()
TableNameOf(filename) ==
    IF filename = "my-data.csv" THEN "my_data"
    ELSE IF filename = "uploaded_data.csv" THEN "uploaded_data"
    ELSE filename

\* volume_path.rstrip('/')
rstrip_slash(volume_path) ==
    IF volume_path = DEFAULT_VOLUME_PATH
    THEN "/Volumes/ingest_demo/medical_providers/providers"
    ELSE IF volume_path = "/Volumes/" THEN "/Volumes"
    ELSE volume_path

FilenameOf(upload_filename) ==
    LET filename == IF upload_filename = "" THEN "uploaded_data" ELSE upload_filename
    IN  IF endswith_csv(filename) THEN filename ELSE filename \o ".csv"

\* the try block of create_delta_table_sql: the statement it builds.  Nothing
\* in the block raises for a stored snapshot and inputs the page can hold.
generate_sql(data, table_name, upload_filename, volume_path) ==
    LET df == DataFrame(data.data)
        filename == FilenameOf(upload_filename)
        table_name_final == IF table_name # "" THEN table_name
                            ELSE TableNameOf(filename)
        types == [c \in 1..Len(df.columns) |-> sql_type(dtypes(df)[c])]
    IN  CreateTableStatement(table_name_final, df.columns, types,
                             rstrip_slash(volume_path) \o "/" \o filename)

\* upload_to_volume starting a new undo history once the file is stored
push_resetting_history(n_clicks, upload_filename, volume_path, auth_ok, upload_ok) ==
    args' = Args(n_clicks, "", <<>>) /\
    IF n_clicks = 0 \/ ~Truthy(csv_data)
    THEN PreventUpdate("pushToVolume") /\ ProcessIdle
    ELSE LET call == get_databricks_client(auth_ok)
         IN  /\ Got(call)
             /\ status' =
                  IF call.result = 0
                  THEN Status("status-error", "Databricks connection not available", 0)
                  ELSE IF ~upload_ok
                  THEN Status("status-error", "Upload failed", 0)
                  ELSE Status("status-success",
                              "Successfully uploaded " \o FilenameOf(upload_filename)
                                  \o " to " \o volume_path, 0)
             /\ undo_stack' = IF call.result # 0 /\ upload_ok THEN ListStack(<<>>)
                              ELSE undo_stack
             /\ Reported("pushToVolume",
                         IF call.result = 0 THEN "no-client"
                         ELSE IF ~upload_ok THEN "failed"
                         ELSE "ok")
             /\ UNCHANGED <<file_data, csv_data, original_data, preview,
                            delimiter, has_header, sql_query>>

(***************************************************************************)
(* upload_to_volume.  upload_ok is whether w.files.upload returns.         *)
(***************************************************************************)
upload_to_volume(n_clicks, upload_filename, volume_path, auth_ok, upload_ok) ==
    args' = Args(n_clicks, "", <<>>) /\
    IF n_clicks = 0 \/ ~Truthy(csv_data)
    THEN PreventUpdate("pushToVolume") /\ ProcessIdle
    ELSE LET call == get_databricks_client(auth_ok)
         IN  /\ Got(call)
             /\ status' =
                  IF call.result = 0
                  THEN Status("status-error", "Databricks connection not available", 0)
                  ELSE IF ~upload_ok
                  THEN Status("status-error", "Upload failed", 0)
                  ELSE Status("status-success",
                              "Successfully uploaded " \o FilenameOf(upload_filename)
                                  \o " to " \o volume_path, 0)
             /\ Reported("pushToVolume",
                         IF call.result = 0 THEN "no-client"
                         ELSE IF ~upload_ok THEN "failed"
                         ELSE "ok")
             /\ UNCHANGED <<file_data, csv_data, original_data, undo_stack, preview,
                            delimiter, has_header, sql_query>>

(***************************************************************************)
(* create_delta_table_sql                                                  *)
(***************************************************************************)
create_delta_table_sql(n_clicks, table_name, upload_filename, volume_path) ==
    args' = Args(n_clicks, "", <<>>) /\
    IF n_clicks = 0 \/ ~Truthy(csv_data)
    THEN PreventUpdate("generateSql") /\ ProcessIdle
    ELSE LET generated == generate_sql(csv_data, table_name, upload_filename,
                                       volume_path)
         IN  /\ sql_query' = generated
             /\ status' = Status("status-info", generated, 0)
             /\ Reported("generateSql", "ok")
             /\ UNCHANGED <<file_data, csv_data, original_data, undo_stack, preview,
                            delimiter, has_header>>
             /\ UNCHANGED <<DATABRICKS_AVAILABLE, w, auth_attempted, requests,
                            sessions, constructions, returned>>

(***************************************************************************)
(* execute_sql_query.  outcome is what execute_statement does: it returns  *)
(* a result in state SUCCEEDED or FAILED, or it raises.                    *)
(***************************************************************************)
StatementOutcomes == {"SUCCEEDED", "FAILED", "raised"}

\* what the callback reports, and the statement it submits ("" for none)
execute_sql(call, stored_sql, outcome) ==
    IF call.result = 0
    THEN [outcome |-> "no-client", statement |-> "",
          status |-> Status("status-error", "Databricks connection not available", 0)]
    ELSE IF DATABRICKS_HTTP_PATH = "" \/ DATABRICKS_HTTP_PATH = "your-warehouse-id"
    THEN [outcome |-> "no-warehouse", statement |-> "",
          status |-> Status("status-error", "Warehouse ID Configuration Required", 0)]
    ELSE IF stored_sql = ""
    THEN [outcome |-> "no-query", statement |-> "",
          status |-> Status("status-error", "No SQL query available. Generate SQL first.", 0)]
    ELSE IF outcome = "SUCCEEDED"
    THEN [outcome |-> "ok", statement |-> stored_sql,
          status |-> Status("status-success", "Executed: " \o stored_sql, 0)]
    ELSE IF outcome = "FAILED"
    THEN [outcome |-> "error", statement |-> stored_sql,
          status |-> Status("status-error", "Execution error", 0)]
    ELSE [outcome |-> "failed", statement |-> stored_sql,
          status |-> Status("status-error", "Execution failed", 0)]

execute_sql_query(n_clicks, auth_ok, outcome) ==
    args' = Args(n_clicks, "", <<>>) /\
    IF n_clicks = 0
    THEN PreventUpdate("executeSql") /\ ProcessIdle
    ELSE LET call == get_databricks_client(auth_ok)
             executed == execute_sql(call, sql_query, outcome)
         IN  /\ Got(call)
             /\ status' = executed.status
             /\ Reported("executeSql", executed.outcome)
             /\ UNCHANGED <<file_data, csv_data, original_data, undo_stack, preview,
                            delimiter, has_header, sql_query>>

(***************************************************************************)
(* Publishing: a session is uploaded and rows are added, the file is       *)
(* pushed to the volume, the statement is generated and executed.          *)
(***************************************************************************)
FileNumbers ==
    [kind |-> "File", valid |-> TRUE,
     contents |-> << <<"qty", ",", "price", ",", "code">>,
                     <<"3", ",", "7.5", ",", "a">>,
                     <<"5", ",", "", ",", "7">> >>]

PublishFiles == {FilePeople, FileNumbers, FileHeaderOnly}

InitPublish ==
    /\ file_data = NoneFile
    /\ csv_data = NoneData
    /\ original_data = NoneData
    /\ undo_stack = NoneStack
    /\ preview = NoPreview
    /\ delimiter = ","
    /\ has_header = TRUE
    /\ status = NoStatus
    /\ nops = 0
    /\ last = [op |-> "init", outcome |-> "ok", csv_data |-> NoneData,
               undo_stack |-> NoneStack, original_data |-> NoneData,
               file_data |-> NoneFile]
    /\ pres = <<>>
    /\ undone = 0
    /\ uploaded = NoneData
    /\ args = NoArgs
    /\ \E available \in BOOLEAN : ProcessInit(available)

PublishUpload ==
    /\ nops < MaxPublishOps
    /\ \E contents \in PublishFiles : process_upload(contents)
    /\ ProcessIdle

PublishAddRow == nops < MaxPublishOps /\ add_row(1) /\ ProcessIdle

PushToVolume ==
    /\ nops < MaxPublishOps
    /\ \E n \in NClicks, f \in UploadFilenames, p \in VolumePaths,
          auth_ok \in BOOLEAN, upload_ok \in BOOLEAN :
          upload_to_volume(n, f, p, auth_ok, upload_ok)

GenerateSql ==
    /\ nops < MaxPublishOps
    /\ \E n \in NClicks, t \in TableNames, f \in UploadFilenames, p \in VolumePaths :
          create_delta_table_sql(n, t, f, p)

ExecuteSql ==
    /\ nops < MaxPublishOps
    /\ \E n \in NClicks, auth_ok \in BOOLEAN, outcome \in StatementOutcomes :
          execute_sql_query(n, auth_ok, outcome)

NextPublish ==
    \/ PublishUpload
    \/ PublishAddRow
    \/ PushToVolume
    \/ GenerateSql
    \/ ExecuteSql

allvars == <<vars, procvars>>

SpecPublish == InitPublish /\ [][NextPublish]_allvars

(***************************************************************************)
(* Two requests inside get_databricks_client at once.  The server handles  *)
(* each request in a thread of its own, and a thread can be suspended      *)
(* between any two reads or writes of the globals.  A request calls the    *)
(* function once; pc is the line it is about to run.  The page's stores    *)
(* are not touched.                                                        *)
(***************************************************************************)
At(r, line) == requests[r].pc = line

Goto(r, line) == requests' = [requests EXCEPT ![r].pc = line]

Return(r, value) ==
    /\ requests' = [requests EXCEPT ![r].pc = "done", ![r].result = value]
    /\ returned' = Append(returned, [result |-> value,
                                     auth_attempted |-> auth_attempted])

\* upload_to_volume or execute_sql_query reaches `w = get_databricks_client()`
Enter(r) ==
    /\ At(r, "idle")
    /\ \E auth_ok \in BOOLEAN :
          requests' = [requests EXCEPT ![r].pc = "line 48", ![r].auth_ok = auth_ok]
    /\ UNCHANGED <<w, auth_attempted, constructions, returned>>

\* if not DATABRICKS_AVAILABLE: return None
CheckAvailable(r) ==
    /\ At(r, "line 48")
    /\ IF ~DATABRICKS_AVAILABLE THEN Return(r, 0)
       ELSE Goto(r, "line 51") /\ UNCHANGED returned
    /\ UNCHANGED <<w, auth_attempted, constructions>>

\* if w is not None:
CheckClient(r) ==
    /\ At(r, "line 51")
    /\ Goto(r, IF w # 0 THEN "line 52" ELSE "line 54")
    /\ UNCHANGED <<w, auth_attempted, constructions, returned>>

\* return w
ReturnClient(r) ==
    /\ At(r, "line 52")
    /\ Return(r, w)
    /\ UNCHANGED <<w, auth_attempted, constructions>>

\* if _auth_attempted: return None
CheckAttempted(r) ==
    /\ At(r, "line 54")
    /\ IF auth_attempted THEN Return(r, 0)
       ELSE Goto(r, "line 59") /\ UNCHANGED returned
    /\ UNCHANGED <<w, auth_attempted, constructions>>

\* WorkspaceClient(): a new client, or an exception
Construct(r) ==
    /\ At(r, "line 59")
    /\ constructions' = constructions + 1
    /\ requests' = IF requests[r].auth_ok
                   THEN [requests EXCEPT ![r].pc = "line 59 store",
                                         ![r].client = constructions + 1]
                   ELSE [requests EXCEPT ![r].pc = "line 65"]
    /\ UNCHANGED <<w, auth_attempted, returned>>

\* w = <the client constructed>
StoreClient(r) ==
    /\ At(r, "line 59 store")
    /\ w' = requests[r].client
    /\ Goto(r, "line 61")
    /\ UNCHANGED <<auth_attempted, constructions, returned>>

\* _auth_attempted = True, after the construction
MarkAttempted(r) ==
    /\ At(r, "line 61")
    /\ auth_attempted' = TRUE
    /\ Goto(r, "line 62")
    /\ UNCHANGED <<w, constructions, returned>>

\* return w, after the construction
ReturnStored(r) ==
    /\ At(r, "line 62")
    /\ Return(r, w)
    /\ UNCHANGED <<w, auth_attempted, constructions>>

\* _auth_attempted = True, in the except block
MarkFailed(r) ==
    /\ At(r, "line 65")
    /\ auth_attempted' = TRUE
    /\ Goto(r, "line 66")
    /\ UNCHANGED <<w, constructions, returned>>

\* return None, in the except block
ReturnNone(r) ==
    /\ At(r, "line 66")
    /\ Return(r, 0)
    /\ UNCHANGED <<w, auth_attempted, constructions>>

\* the rest of the state while a request is inside the function
InClient == UNCHANGED <<vars, DATABRICKS_AVAILABLE, sql_query, sessions>>

RaceEnter == InClient /\ \E r \in Requests : Enter(r)

RaceCheckAvailable == InClient /\ \E r \in Requests : CheckAvailable(r)

RaceCheckClient == InClient /\ \E r \in Requests : CheckClient(r)

RaceReturnClient == InClient /\ \E r \in Requests : ReturnClient(r)

RaceCheckAttempted == InClient /\ \E r \in Requests : CheckAttempted(r)

RaceConstruct == InClient /\ \E r \in Requests : Construct(r)

RaceStoreClient == InClient /\ \E r \in Requests : StoreClient(r)

RaceMarkAttempted == InClient /\ \E r \in Requests : MarkAttempted(r)

RaceReturnStored == InClient /\ \E r \in Requests : ReturnStored(r)

RaceMarkFailed == InClient /\ \E r \in Requests : MarkFailed(r)

RaceReturnNone == InClient /\ \E r \in Requests : ReturnNone(r)

NextRace ==
    \/ RaceEnter
    \/ RaceCheckAvailable
    \/ RaceCheckClient
    \/ RaceReturnClient
    \/ RaceCheckAttempted
    \/ RaceConstruct
    \/ RaceStoreClient
    \/ RaceMarkAttempted
    \/ RaceReturnStored
    \/ RaceMarkFailed
    \/ RaceReturnNone

SpecRace == InitPublish /\ [][NextRace]_allvars

(***************************************************************************)
(* Two browser sessions on one server process.  Each session has its own   *)
(* stores and inputs; app.server.sql_query and the client are the          *)
(* process's.  A callback runs for the session that sent the request.      *)
(***************************************************************************)
SessionDid(s, op, outcome) ==
    [sessions EXCEPT ![s].op = op, ![s].outcome = outcome]

\* the callbacks of SpecSessions keep the page variables of the first part
\* of the model as they are, but for the count of callbacks
SessionStep ==
    /\ nops' = nops + 1
    /\ UNCHANGED <<file_data, csv_data, original_data, undo_stack, preview,
                   delimiter, has_header, status, last, pres, undone, uploaded,
                   args>>
    /\ UNCHANGED <<DATABRICKS_AVAILABLE, requests>>

\* process_upload in session s, with the parse settings of page load
session_upload(s, contents) ==
    LET parsed == read_csv(contents, ",", TRUE)
        csv    == CsvData(to_dict_records(parsed.df), parsed.df.columns)
    IN  /\ sessions' = IF parsed.ok
                       THEN [SessionDid(s, "upload", "ok") EXCEPT ![s].csv_data = csv]
                       ELSE SessionDid(s, "upload", "error")
        /\ UNCHANGED <<w, auth_attempted, sql_query, constructions, returned>>

\* create_delta_table_sql in session s, the button clicked
session_create_delta_table_sql(s, table_name, upload_filename, volume_path) ==
    IF ~Truthy(sessions[s].csv_data)
    THEN /\ sessions' = SessionDid(s, "generateSql", "prevented")
         /\ UNCHANGED <<w, auth_attempted, sql_query, constructions, returned>>
    ELSE LET generated == generate_sql(sessions[s].csv_data, table_name,
                                       upload_filename, volume_path)
         IN  /\ sql_query' = generated
             /\ sessions' = [SessionDid(s, "generateSql", "ok")
                                EXCEPT ![s].generated = generated]
             /\ UNCHANGED <<w, auth_attempted, constructions, returned>>

\* execute_sql_query in session s, the button clicked
session_execute_sql_query(s, auth_ok, outcome) ==
    LET call == get_databricks_client(auth_ok)
        executed == execute_sql(call, sql_query, outcome)
    IN  /\ GotClient(call)
        /\ sessions' = [SessionDid(s, "executeSql", executed.outcome)
                           EXCEPT ![s].submitted = executed.statement]
        /\ UNCHANGED sql_query

SessionFiles == {FilePeople, FileNumbers}

SessionUpload ==
    /\ nops < MaxSessionOps
    /\ SessionStep
    /\ \E s \in Sessions, contents \in SessionFiles : session_upload(s, contents)

\* the file name is left empty and the volume path is the default one
SessionGenerateSql ==
    /\ nops < MaxSessionOps
    /\ SessionStep
    /\ \E s \in Sessions, t \in TableNames :
          session_create_delta_table_sql(s, t, "", DEFAULT_VOLUME_PATH)

\* execute-sql-btn is hidden until create_delta_table_sql of the session has
\* returned a statement and shown it
SessionExecuteSql ==
    /\ nops < MaxSessionOps
    /\ SessionStep
    /\ \E s \in Sessions, auth_ok \in BOOLEAN, outcome \in StatementOutcomes :
          /\ sessions[s].generated # ""
          /\ session_execute_sql_query(s, auth_ok, outcome)

NextSessions ==
    \/ SessionUpload
    \/ SessionGenerateSql
    \/ SessionExecuteSql

SpecSessions == InitPublish /\ [][NextSessions]_allvars

(***************************************************************************)
(* Properties.                                                             *)
(***************************************************************************)
Mutators == {"addRow", "addColumn", "deleteColumn", "applyTableEdits"}

Items == undo_stack.items

\* C1: after a run of N <= UNDO_LIMIT mutations (addRow, addColumn,
\* deleteColumn, applyTableEdits), N calls of undo leave current equal to the
\* snapshot that was current before the run.
C1_UndoNTimesRestoresStart ==
    (Len(pres) >= 1 /\ Len(pres) <= UNDO_LIMIT /\ undone = Len(pres))
        => csv_data = pres[1]

\* C2: right after a mutation the entry it pushed, the top of the undo
\* stack, equals the snapshot that was current right before the mutation.
C2_PushedEntryIsPreSnapshot ==
    (last.op \in Mutators /\ last.outcome = "ok")
        => (Items # <<>> /\ Items[Len(Items)] = last.csv_data)

\* C3: addColumn followed at once by undo leaves the columns as they were
\* before addColumn and no row with the key New_Column_{|C|+1}.
C3_AddColumnThenUndo ==
    [][(last.op = "addColumn" /\ last.outcome = "ok" /\ last'.op = "undo"
          /\ last'.outcome = "ok")
       => (/\ csv_data'.columns = last.csv_data.columns
           /\ \A r \in 1..Len(csv_data'.data) :
                ("New_Column_" \o ToString(Len(last.csv_data.columns) + 1))
                    \notin KeySet(csv_data'.data[r]))]_vars

PushOps == Mutators \cup {"revert"}

\* C4: the undo stack never holds more than UNDO_LIMIT entries, and a push
\* onto a full stack drops exactly the oldest entry: the other UNDO_LIMIT - 1
\* keep their order and the pushed entry comes last.
C4_StackBounded ==
    /\ Len(Items) <= UNDO_LIMIT
    /\ (last.op \in PushOps /\ last.outcome = "ok"
          /\ Len(last.undo_stack.items) = UNDO_LIMIT)
        => (/\ Len(Items) = UNDO_LIMIT
            /\ SubSeq(Items, 1, UNDO_LIMIT - 1)
                 = SubSeq(last.undo_stack.items, 2, UNDO_LIMIT))

C4_PushedOntoFullStack ==
    /\ last.op \in PushOps
    /\ last.outcome = "ok"
    /\ Len(last.undo_stack.items) = UNDO_LIMIT
    /\ last.undo_stack.items[1] # last.undo_stack.items[2]

\* C5: after a run of more than UNDO_LIMIT mutations, the k-th of the next
\* UNDO_LIMIT undo calls restores the snapshot that was current before the
\* k-th most recent mutation, and the call after them is the empty-stack
\* no-op.
C5_UndoAfterLongRun ==
    /\ (Len(pres) > UNDO_LIMIT /\ undone >= 1 /\ undone <= UNDO_LIMIT)
         => csv_data = pres[Len(pres) - undone + 1]
    /\ (Len(pres) > UNDO_LIMIT /\ undone = UNDO_LIMIT + 1 /\ last.op = "undo")
         => (last.outcome = "warning" /\ csv_data = last.csv_data)

\* C6: undo on an empty or absent undo stack reports a warning, not an
\* error, and leaves current, original and the undo stack as they were.
C6_UndoOnEmptyStack ==
    (last.op = "undo" /\ last.outcome # "prevented" /\ Falsy(last.undo_stack))
        => (/\ last.outcome = "warning"
            /\ status.class = "status-warning"
            /\ csv_data = last.csv_data
            /\ original_data = last.original_data
            /\ undo_stack = last.undo_stack)

C6_UndoWithNothingToUndo ==
    /\ last.op = "undo"
    /\ last.outcome = "warning"
    /\ last.undo_stack = ListStack(<<>>)
    /\ Truthy(last.csv_data)

C8_OriginalOnlySetByUploadAndRemove ==
    /\ [][original_data' # original_data
            => (last'.outcome = "ok" /\ last'.op \in {"upload", "removeFile"})]_vars
    /\ [](Truthy(original_data) => original_data = uploaded)

C8_EditedWithOriginalKept ==
    /\ last.op \in Mutators \cup {"undo", "revert", "changeParseSettings"}
    /\ last.outcome = "ok"
    /\ Truthy(original_data)
    /\ csv_data # original_data

KeysMatch(snapshot) ==
    \A r \in 1..Len(snapshot.data) : KeySet(snapshot.data[r]) = Range(snapshot.columns)

\* C9: every record of current and of every snapshot on the undo stack has
\* exactly the snapshot's columns as its keys.
C9_KeysEqualColumns ==
    /\ Truthy(csv_data) => KeysMatch(csv_data)
    /\ \A i \in 1..Len(Items) : KeysMatch(Items[i])

\* C10: the column names of current are pairwise distinct.
C10_ColumnsDistinct ==
    \A i, j \in 1..Len(csv_data.columns) :
        i # j => csv_data.columns[i] # csv_data.columns[j]

IsSession(d) == d.kind = "Table"

\* C11: while a session is active, from a successful upload until
\* removeFile, current.columns is never empty.
C11_ColumnsNeverEmpty ==
    IsSession(csv_data) => csv_data.columns # <<>>

\* The dropdown value names a column unless it is the empty selection; ""
\* is a name only where a column is called "".
IsName(selected_column, columns) ==
    selected_column # "" \/ selected_column \in Range(columns)

DeleteClicked ==
    /\ last.op = "deleteColumn"
    /\ args.n_clicks = 1
    /\ IsSession(last.csv_data)
    /\ IsName(args.selected_column, last.csv_data.columns)

\* C12: deleteColumn(name) on a snapshot with exactly one column fails with
\* the last-column error for every name, present or absent, and leaves
\* current and the undo stack as they were.
C12_DeleteOnSingleColumn ==
    (DeleteClicked /\ Len(last.csv_data.columns) = 1)
        => (/\ last.outcome = "last-column"
            /\ status.class = "status-error"
            /\ csv_data = last.csv_data
            /\ undo_stack = last.undo_stack)

\* C13: deleteColumn(name) on a snapshot with two or more columns, none of
\* them called name, is rejected with the column-not-found error, pushes
\* nothing onto the undo stack and leaves current as it was.
C13_DeleteAbsentColumn ==
    (/\ DeleteClicked
     /\ Len(last.csv_data.columns) >= 2
     /\ args.selected_column \notin Range(last.csv_data.columns))
        => (/\ last.outcome = "not-found"
            /\ status.class = "status-error"
            /\ csv_data = last.csv_data
            /\ undo_stack = last.undo_stack)

C13_AbsentColumnRejected ==
    /\ DeleteClicked
    /\ last.outcome = "not-found"
    /\ Len(last.csv_data.columns) >= 2
    /\ args.selected_column = "gone"
    /\ last.undo_stack.items # <<>>

\* the entry a push has just put on the undo stack is the given snapshot
TopIs(snapshot) == Items # <<>> /\ Items[Len(Items)] = snapshot

\* C14: a successful deleteColumn(name) pushes the snapshot of before the
\* deletion, removes name from current.columns and the key name from every
\* row, and leaves the other columns in their order and every other cell.
C14_DeleteColumnEffect ==
    (last.op = "deleteColumn" /\ last.outcome = "ok")
        => (/\ TopIs(last.csv_data)
            /\ csv_data.columns = SelectSeq(last.csv_data.columns,
                                            LAMBDA col : col # args.selected_column)
            /\ Len(csv_data.data) = Len(last.csv_data.data)
            /\ \A r \in 1..Len(csv_data.data) :
                  csv_data.data[r] = DictDel(last.csv_data.data[r], args.selected_column))

\* the name addColumn generates on a snapshot
GeneratedName(snapshot) == "New_Column_" \o ToString(Len(snapshot.columns) + 1)

AddColumnClicked ==
    /\ last.op = "addColumn"
    /\ args.n_clicks = 1
    /\ IsSession(last.csv_data)

\* C15: addColumn() fails when the generated name New_Column_{N+1} is
\* already a column of current; current and the undo stack are then left as
\* they were (so no existing cell is overwritten).
C15_AddColumnCollisionFails ==
    (AddColumnClicked /\ GeneratedName(last.csv_data) \in Range(last.csv_data.columns))
        => (/\ last.outcome # "ok"
            /\ csv_data = last.csv_data
            /\ undo_stack = last.undo_stack)

\* C16: a successful addColumn() on a snapshot with N columns pushes the
\* snapshot of before the operation, appends New_Column_{N+1} as the last
\* column, maps that key to "" in every existing row and changes no other
\* column, row count or cell.
C16_AddColumnEffect ==
    (AddColumnClicked /\ GeneratedName(last.csv_data) \notin Range(last.csv_data.columns))
        => (/\ last.outcome = "ok"
            /\ TopIs(last.csv_data)
            /\ csv_data.columns = Append(last.csv_data.columns, GeneratedName(last.csv_data))
            /\ Len(csv_data.data) = Len(last.csv_data.data)
            /\ \A r \in 1..Len(csv_data.data) :
                  /\ GeneratedName(last.csv_data) \in KeySet(csv_data.data[r])
                  /\ DictGet(csv_data.data[r], GeneratedName(last.csv_data)) = ""
                  /\ DictDel(csv_data.data[r], GeneratedName(last.csv_data))
                       = last.csv_data.data[r])

\* C17: addRow() in an active session always succeeds: it pushes the
\* snapshot of before the operation, appends exactly one record, the last
\* row, with every column of current.columns mapped to "", and leaves the
\* columns and all earlier rows as they were.
C17_AddRowEffect ==
    (last.op = "addRow" /\ args.n_clicks = 1 /\ IsSession(last.csv_data))
        => (/\ last.outcome = "ok"
            /\ TopIs(last.csv_data)
            /\ csv_data.columns = last.csv_data.columns
            /\ Len(csv_data.data) = Len(last.csv_data.data) + 1
            /\ SubSeq(csv_data.data, 1, Len(last.csv_data.data)) = last.csv_data.data
            /\ KeySet(csv_data.data[Len(csv_data.data)]) = Range(csv_data.columns)
            /\ \A k \in Range(csv_data.columns) :
                  DictGet(csv_data.data[Len(csv_data.data)], k) = "")

\* the cell values of a record, in key order
DictValues(d) == [i \in 1..Len(d) |-> d[i][2]]

\* applyTableEdits called in a session whose table is on the page, with rows
\* to send or rows to replace
TableEdited ==
    /\ last.op = "applyTableEdits"
    /\ IsSession(last.csv_data)
    /\ preview.kind = "Table"
    /\ (args.table_data # <<>> \/ last.csv_data.data # <<>>)

\* C18: applyTableEdits(newRows) in an active session, for every newRows
\* including the empty row set, pushes the snapshot that was current before
\* the edit and makes current.rows hold exactly the records of newRows in
\* order (under renamed keys when the header flag is on).
C18_TableEditsReplaceRows ==
    TableEdited
        => (/\ TopIs(last.csv_data)
            /\ Len(csv_data.data) = Len(args.table_data)
            /\ \A r \in 1..Len(csv_data.data) :
                  IF has_header
                  THEN DictValues(csv_data.data[r]) = DictValues(args.table_data[r])
                  ELSE csv_data.data[r] = args.table_data[r])

\* applyTableEdits committed with the header flag on
HeaderEdited ==
    /\ last.op = "applyTableEdits"
    /\ last.outcome = "ok"
    /\ has_header
    /\ args.table_data # <<>>

\* C19: after applyTableEdits(newRows) with the header flag on and newRows
\* not empty, current.columns equals the header names derived from row 0 of
\* newRows (Column_{i+1} for a missing value, 47 characters plus "..." for a
\* value longer than 50), and every row has those names as keys, with the
\* cell values of newRows.
C19_ColumnsAreDerivedHeaders ==
    HeaderEdited
        => LET df == DataFrame(args.table_data)
           IN  /\ csv_data.columns = create_preview_table(df, TRUE).names
               /\ Len(csv_data.data) = Len(df.values)
               /\ \A r \in 1..Len(csv_data.data) :
                     /\ DictKeys(csv_data.data[r]) = csv_data.columns
                     /\ DictValues(csv_data.data[r]) = df.values[r]

\* the header names the callbacks derive from a stored snapshot:
\* create_preview_table(pd.DataFrame(csv_data['data']), use_first_row_as_header=True)
DerivedNames(snapshot) == create_preview_table(DataFrame(snapshot.data), TRUE).names

\* a value the derivation rule reports as it is
PlainValue(v) == v # NaN /\ v # "" /\ Len(v) <= 50

\* C20: with the header flag on, after applyTableEdits changes the value in
\* row 0 of column i to v, the header names derived next, by the callback
\* itself and from the new current, have v at position i, for every i.
C20_EditedHeaderIsReported ==
    [][(/\ last'.op = "applyTableEdits"
        /\ last'.outcome = "ok"
        /\ has_header
        /\ preview.kind = "Table"
        /\ preview.data # <<>>)
       => \A i \in 1..Len(preview.ids) :
            LET v == DictGet(args'.table_data[1], preview.ids[i])
            IN  (v # DictGet(preview.data[1], preview.ids[i]) /\ PlainValue(v))
                   => (/\ preview'.names[i] = v
                       /\ i <= Len(DerivedNames(csv_data'))
                       /\ DerivedNames(csv_data')[i] = v)]_vars

(***************************************************************************)
(* The header derivation on its own: create_preview_table applied, up to   *)
(* MaxDerives times, to the DataFrame of a snapshot drawn from a bounded   *)
(* set: two columns, cells missing, blank, short or longer than 50         *)
(* characters, up to MaxDeriveRows rows or one row more than the preview   *)
(* shows.                                                                  *)
(***************************************************************************)
DeriveCells == {NaN, "", "7", Long51}

DeriveRows == {<< <<"name", a>>, <<"age", b>> >> : a, b \in DeriveCells}

DeriveSnapshots ==
    {CsvData(rows, <<"name", "age">>) :
        rows \in UNION {[1..n -> DeriveRows] : n \in 0..MaxDeriveRows}}
    \cup {CsvData([i \in 1..(PREVIEW_ROWS + 1) |-> row], <<"name", "age">>) :
            row \in DeriveRows}

\* the DataFrame a snapshot is the image of:
\* csv_data = {'data': df.to_dict('records'), 'columns': df.columns.tolist()}
Frame(snapshot) ==
    [columns |-> snapshot.columns,
     values  |-> [r \in 1..Len(snapshot.data) |->
                    [c \in 1..Len(snapshot.columns) |->
                       DictGet(snapshot.data[r], snapshot.columns[c])]]]

InitDerive ==
    /\ csv_data \in DeriveSnapshots
    /\ has_header \in BOOLEAN
    /\ file_data = NoneFile
    /\ original_data = NoneData
    /\ undo_stack = NoneStack
    /\ preview = NoPreview
    /\ delimiter = ","
    /\ status = NoStatus
    /\ nops = 0
    /\ last = [op |-> "init", outcome |-> "ok", csv_data |-> NoneData,
               undo_stack |-> NoneStack, original_data |-> NoneData,
               file_data |-> NoneFile]
    /\ pres = <<>>
    /\ undone = 0
    /\ uploaded = NoneData
    /\ args = NoArgs
    /\ ProcessInit(TRUE)

\* a derivation that takes the header row out of the snapshot it is given
derive_consuming_header_row ==
    /\ preview' = create_preview_table(Frame(csv_data), has_header)
    /\ csv_data' = IF has_header /\ csv_data.data # <<>>
                   THEN [csv_data EXCEPT !.data = Tail(csv_data.data)]
                   ELSE csv_data
    /\ last' = Called("derive", "ok")
    /\ nops' = nops + 1
    /\ UNCHANGED <<file_data, original_data, undo_stack, delimiter,
                   has_header, status, pres, undone, uploaded, args>>

\* create_preview_table(df, use_first_row_as_header=has_header): it reads df
\* and returns the preview, nothing else is written
derive ==
    /\ preview' = create_preview_table(Frame(csv_data), has_header)
    /\ last' = Called("derive", "ok")
    /\ nops' = nops + 1
    /\ UNCHANGED <<file_data, csv_data, original_data, undo_stack, delimiter,
                   has_header, status, pres, undone, uploaded, args>>

NextDerive == nops < MaxDerives /\ derive /\ ProcessIdle

SpecDerive == InitDerive /\ [][NextDerive]_vars

\* the header name the derivation rule gives the row-0 value v of column i
RuleHeaderName(v, i) ==
    LET name == IF v = NaN \/ v = "" THEN "Column_" \o ToString(i) ELSE v
    IN  IF Len(name) > 50 THEN Prefix47(name) \o "..." ELSE name

\* C21: derive with the header flag on and at least one row returns, for
\* every column position i, the row-0 value of column i as headerNames[i],
\* Column_{i+1} when that value is empty or missing, cut to 47 characters
\* plus "..." when longer than 50; row 0 is still the first body row.
C21_DerivedHeaderNames ==
    (last.op = "derive" /\ has_header /\ csv_data.data # <<>>)
        => (/\ Len(preview.names) = Len(csv_data.columns)
            /\ \A i \in 1..Len(csv_data.columns) :
                  preview.names[i]
                    = RuleHeaderName(DictGet(csv_data.data[1], csv_data.columns[i]), i)
            /\ preview.data # <<>>
            /\ preview.data[1] = csv_data.data[1])

\* C22: derive with the header flag off, or on a snapshot without rows,
\* returns the snapshot's columns as headerNames and its rows as bodyRows.
C22_DeriveWithoutHeader ==
    (last.op = "derive" /\ (~has_header \/ csv_data.data = <<>>))
        => (/\ preview.names = csv_data.columns
            /\ preview.data = csv_data.data)

Decoded(file, d, has_header_bool) ==
    LET df == read_csv(file, d, has_header_bool).df
    IN  CsvData(to_dict_records(df), df.columns)

C25_FailedUploadKeepsState ==
    (last.op = "upload" /\ last.outcome = "error")
        => (/\ preview.kind = "Error"
            /\ file_data = last.file_data
            /\ csv_data = last.csv_data
            /\ original_data = last.original_data
            /\ undo_stack = last.undo_stack)

C25_FailedUploadInSession ==
    /\ last.op = "upload"
    /\ last.outcome = "error"
    /\ IsSession(csv_data)
    /\ undo_stack.items # <<>>

C27_FailedReparseKeepsState ==
    (last.op = "changeParseSettings" /\ last.outcome = "error")
        => (/\ preview.kind = "Error"
            /\ csv_data = last.csv_data
            /\ original_data = last.original_data
            /\ undo_stack = last.undo_stack)

C27_FailedReparseAfterEdit ==
    /\ last.op = "changeParseSettings"
    /\ last.outcome = "error"
    /\ IsSession(csv_data)
    /\ csv_data # original_data

\* C28: removeFile discards the whole session: afterwards the stored file,
\* current and original are empty and the undo stack has no entries, and an
\* undo or a revert that follows restores nothing.
C28_RemoveFileDiscardsSession ==
    /\ []((last.op = "removeFile" /\ last.outcome = "ok")
            => (/\ file_data = EmptyFile
                /\ csv_data = EmptyDict
                /\ original_data = EmptyDict
                /\ undo_stack = ListStack(<<>>)))
    /\ [][(/\ last.op = "removeFile"
           /\ last.outcome = "ok"
           /\ last'.op \in {"undo", "revert"}
           /\ args'.n_clicks = 1)
          => (/\ last'.outcome = "warning"
              /\ UNCHANGED <<file_data, csv_data, original_data, undo_stack>>)]_vars

C28_RemovedEditedSession ==
    /\ last.op = "removeFile"
    /\ last.outcome = "ok"
    /\ last.undo_stack.items # <<>>
    /\ IsSession(last.csv_data)
    /\ IsSession(last.original_data)

NeedTable == {"addRow", "addColumn", "deleteColumn", "applyTableEdits",
              "changeParseSettings"}

\* C29: when no table is loaded, before any upload or after removeFile,
\* addRow, addColumn, deleteColumn, applyTableEdits and changeParseSettings
\* are rejected and leave current, original and the undo stack as they were.
C29_NoTableNoEdit ==
    (last.op \in NeedTable /\ ~IsSession(last.csv_data))
        => (/\ last.outcome = "prevented"
            /\ csv_data = last.csv_data
            /\ original_data = last.original_data
            /\ undo_stack = last.undo_stack)

C29_ClickedAfterRemove ==
    /\ last.op \in {"addRow", "addColumn"}
    /\ args.n_clicks = 1
    /\ last.csv_data = EmptyDict
    /\ last.outcome = "prevented"

\* C30: revert when original is absent or empty reports a warning, not an
\* error, and leaves current and the undo stack as they were.
C30_RevertWithoutOriginal ==
    (/\ last.op = "revert"
     /\ args.n_clicks = 1
     /\ (~IsSession(last.original_data) \/ last.original_data.data = <<>>))
        => (/\ last.outcome = "warning"
            /\ status.class = "status-warning"
            /\ csv_data = last.csv_data
            /\ undo_stack = last.undo_stack)

C30_RevertOnEmptyOriginal ==
    /\ last.op = "revert"
    /\ last.outcome = "warning"
    /\ IsSession(original_data)
    /\ original_data.data = <<>>
    /\ csv_data # original_data

(***************************************************************************)
(* The undo control.                                                       *)
(***************************************************************************)
\* the length of the undo stack; a store never written holds no entries
StackLength(stack) == IF stack.kind = "None" THEN 0 ELSE Len(stack.items)

Rerendered ==
    /\ last.op \in {"addRow", "addColumn", "deleteColumn", "undo", "revert"}
    /\ last.outcome = "ok"

\* C36: after every addRow, addColumn, deleteColumn, undo and revert the
\* header names the table displays are the names derived from current under
\* the session's header flag; with the flag off they are current.columns.
C36_DisplayedHeadersFollowFlag ==
    Rerendered =>
        /\ preview.names = create_preview_table(Frame(csv_data), has_header).names
        /\ ~has_header => preview.names = csv_data.columns

(***************************************************************************)
(* Deleting a column that is there.                                        *)
(***************************************************************************)
\* Delete Column was clicked for a name of a session of two or more columns
DeleteOfPresentColumn ==
    /\ last.op = "deleteColumn" /\ args.n_clicks > 0
    /\ Truthy(last.csv_data)
    /\ Len(last.csv_data.columns) >= 2
    /\ args.selected_column \in Range(last.csv_data.columns)

\* C38: in a state with two or more columns, deleteColumn(name) for a name
\* in current.columns succeeds and leaves exactly one column fewer.
C38_DeleteRemovesExactlyOne ==
    DeleteOfPresentColumn =>
        /\ last.outcome = "ok"
        /\ Len(csv_data.columns) = Len(last.csv_data.columns) - 1

(***************************************************************************)
(* Editing a cell of a table longer than the preview.                      *)
(***************************************************************************)
\* C37: editing one cell through the displayed table drops no row: current
\* has as many rows after the resulting applyTableEdits as before, whatever
\* their number, and the rows the table did not show keep their values.
C37_CellEditKeepsRows ==
    (last.op = "applyTableEdits" /\ last.outcome = "ok") =>
        /\ Len(csv_data.data) = Len(last.csv_data.data)
        /\ \A r \in (PREVIEW_ROWS + 1)..Len(last.csv_data.data) :
              /\ r <= Len(csv_data.data)
              /\ DictValues(csv_data.data[r]) = DictValues(last.csv_data.data[r])

(***************************************************************************)
(* One operation per event.                                                *)
(***************************************************************************)
\* C35: one click of addRow, addColumn, deleteColumn, undo or revert applies
\* one operation: current changes once, the undo stack by at most one push
\* or pop, and the re-rendering of the table that follows applies no
\* applyTableEdits of its own (the user edits no cell in SpecEvents).
C35_OneOperationPerClick ==
    [][/\ (last'.op \in ClickOps /\ last'.outcome = "ok") =>
              \/ StackLength(undo_stack') = StackLength(undo_stack) + 1
              \/ StackLength(undo_stack') = StackLength(undo_stack) - 1
              \/ StackLength(undo_stack') = UNDO_LIMIT
       /\ (last.op \in ClickOps /\ last.outcome = "ok") =>
              ~(last'.op = "applyTableEdits" /\ last'.outcome = "ok")]_vars

(***************************************************************************)
(* Publishing.                                                             *)
(***************************************************************************)
PublishOps == {"pushToVolume", "generateSql", "executeSql"}

\* C32: the storage push, the CREATE TABLE generation and the SQL execution
\* never change current, original or the undo stack, whether they succeed,
\* fail or find no client; their outcome shows in the status message only:
\* a failure as an error message, the rest of the page staying as it was.
C32_PublishingKeepsSession ==
    [][last'.op \in PublishOps =>
          /\ UNCHANGED <<csv_data, original_data, undo_stack>>
          /\ UNCHANGED <<file_data, preview, delimiter, has_header>>
          /\ last'.outcome \in {"no-client", "no-warehouse", "no-query",
                                "failed", "error"}
                => status'.class = "status-error"
          /\ last'.outcome = "ok"
                => status'.class \in {"status-success", "status-info"}
          /\ last'.outcome = "prevented" => status' = status]_allvars

\* an execution that failed in a session with edits to undo
C32_ExecutionFailedAfterEdits ==
    /\ last.op = "executeSql"
    /\ last.outcome \in {"failed", "error"}
    /\ Truthy(csv_data) /\ csv_data # original_data
    /\ StackLength(undo_stack) > 0
    /\ status.class = "status-error"

(***************************************************************************)
(* The client of the process.                                              *)
(***************************************************************************)
\* C33: over any sequence of calls of get_databricks_client in one process
\* the construction of the client is attempted at most once; every call
\* after the attempt returns what the attempt gave: no client after a
\* failure, the same client after a success.
C33_AuthenticationAttemptedOnce ==
    /\ constructions <= 1
    /\ \A i, j \in 1..Len(returned) :
          (i < j /\ returned[i].auth_attempted) =>
              returned[j].result = returned[i].result

\* a failed attempt followed by two more calls
C33_CalledAgainAfterFailure ==
    /\ Len(returned) >= 3
    /\ returned[1].auth_attempted /\ returned[1].result = 0
    /\ constructions = 1

(***************************************************************************)
(* Schema inference.                                                       *)
(***************************************************************************)
\* the type the inference rule gives a column with these values; a column
\* without any non-empty value, which the rule leaves open, is a string column
RuleType(values) ==
    LET nonempty == {v \in Range(values) : v # "" /\ v # NaN}
    IN  IF nonempty = {} THEN "STRING"
        ELSE IF nonempty \subseteq IntegerTexts THEN "BIGINT"
        ELSE IF nonempty \subseteq IntegerTexts \cup DecimalTexts THEN "DOUBLE"
        ELSE "STRING"

RuleTypes(snapshot) ==
    LET df == Frame(snapshot)
    IN  [c \in 1..Len(df.columns) |->
           RuleType([r \in 1..Len(df.values) |-> df.values[r][c]])]

\* C34: the statement generated for a current snapshot with rows gives each
\* column of current the integer type when every non-empty value of the
\* column is an integer, else the floating-point type when every non-empty
\* value is a decimal number, else the string type; empty cells (a blank
\* row added by addRow, a missing cell) do not change the type.
C34_SchemaFollowsRule ==
    (last.op = "generateSql" /\ last.outcome = "ok" /\ csv_data.data # <<>>) =>
        \E t \in TableNames, f \in UploadFilenames, p \in VolumePaths :
            sql_query = CreateTableStatement(
                            IF t # "" THEN t ELSE TableNameOf(FilenameOf(f)),
                            csv_data.columns, RuleTypes(csv_data),
                            rstrip_slash(p) \o "/" \o FilenameOf(f))

(***************************************************************************)
(* Requests that overlap.                                                  *)
(***************************************************************************)
\* C39: when two requests call get_databricks_client at the same time and
\* no client exists yet, then under every interleaving the client is
\* constructed at most once, and both callers end with the same client or
\* both with none.
C39_OneClientForBothRequests ==
    /\ constructions <= 1
    /\ (\A r \in Requests : At(r, "done")) =>
          \A r1, r2 \in Requests : requests[r1].result = requests[r2].result

(***************************************************************************)
(* Sessions side by side.                                                  *)
(***************************************************************************)
\* C40: with two sessions in one process, the statement Execute SQL submits
\* in a session is the CREATE TABLE text most recently generated in that
\* session, under every interleaving of the sessions' generate and execute
\* steps; a statement generated by the other session is never executed.
C40_ExecutesOwnStatement ==
    \A s \in Sessions :
        (sessions[s].op = "executeSql" /\ sessions[s].submitted # "") =>
            sessions[s].submitted = sessions[s].generated

====
